---- MODULE Spec2Model ----
(***************************************************************************)
(* Model of the job-assembly pipeline of src/Python/msrd.py: the `submit`  *)
(* command loads a job document, uploads every file named on the command   *)
(* line, merges one file information per upload into                       *)
(* job.setup.package.fileInformations, optionally dumps the document and   *)
(* posts it.  Strings that the code transforms (upload responses, file     *)
(* paths) are sequences of one-character strings.                          *)
(***************************************************************************)
EXTENDS Integers, Sequences, FiniteSets, TLC

VARIABLES
    pc,               \* position of the single thread inside submit()
    jobFile,          \* content of the file at job_path
    files,            \* the `files` argument: sequence of paths
    output_job_path,  \* the -o option
    job,              \* the local `job` of submit / add_file_info_to_job
    file_info,        \* the local list `file_info` of add_file_info_to_job
    i,                \* number of files the upload loop has taken
    j,                \* number of file infos the merge loop has taken
    size,             \* the local `size` of upload_file_and_generate_file_info
    responses,        \* responses received from the upload endpoint, in order
    log,              \* requests sent to / returned from the remote service
    outFile,          \* what has been written at output_job_path
    exc,              \* the exception that ended the run, "none" while running
    at,               \* the position at which it was raised, "none" while running
    exitCode          \* process exit status, -1 while running

vars == <<pc, jobFile, files, output_job_path, job, file_info, i, j, size,
          responses, log, outFile, exc, at, exitCode>>

-----------------------------------------------------------------------------
(* Bounds of the model *)

MaxFiles == 2
MaxTextLen == 4

(* Program constant *)

MAX_FILE_SIZE == 4194304

-----------------------------------------------------------------------------
(* Strings *)

Quote == "\""

RECURSIVE LStrip(_, _)
LStrip(s, chars) ==
    IF s # <<>> /\ Head(s) \in chars THEN LStrip(Tail(s), chars) ELSE s

RECURSIVE RStrip(_, _)
RStrip(s, chars) ==
    IF s # <<>> /\ s[Len(s)] \in chars
    THEN RStrip(SubSeq(s, 1, Len(s) - 1), chars)
    ELSE s

\* mutant: only the leading characters are removed
StripLeadingOnly(s, chars) == LStrip(s, chars)

\* str.strip(chars): every leading and every trailing character of `chars` goes
Strip(s, chars) == RStrip(LStrip(s, chars), chars)

\* the components of a path between "/" separators
RECURSIVE SplitPath(_, _, _)
SplitPath(s, cur, acc) ==
    IF s = <<>> THEN Append(acc, cur)
    ELSE IF Head(s) = "/" THEN SplitPath(Tail(s), <<>>, Append(acc, cur))
    ELSE SplitPath(Tail(s), Append(cur, Head(s)), acc)

\* pathlib drops empty and "." components when it parses a path
PathParts(p) ==
    SelectSeq(SplitPath(p, <<>>, <<>>), LAMBDA c : c # <<>> /\ c # <<".">>)

\* Path(file).name: the final component, "" when there is none
PathName(p) ==
    IF PathParts(p) = <<>> THEN <<>> ELSE PathParts(p)[Len(PathParts(p))]

-----------------------------------------------------------------------------
(* JSON documents.  A document is the kind of each node on the path        *)
(* setup.package.fileInformations (as far as the path exists) plus the     *)
(* items of the list at the end of that path.                              *)

Kinds == {"dict", "list", "str", "num", "null"}

P0 == <<>>
P1 == <<"setup">>
P2 == <<"setup", "package">>
P3 == <<"setup", "package", "fileInformations">>

\* the dictionary returned by upload_file_and_generate_file_info
GenerateFileInfo(file, text) ==
    [action |-> "DownloadOnly", name |-> PathName(file), url |-> Strip(text, {Quote})]

\* an entry a template may already hold
Existing == [action |-> "DownloadOnly", name |-> <<"o", "l", "d">>, url |-> <<"x">>]

Doc(kinds, items) == [kinds |-> kinds, items |-> items]

\* `job` before json.load has bound it
Unbound == Doc(P0 :> "null", <<>>)

KindShapes ==
    { k \in UNION { [S -> Kinds] : S \in {{P0}, {P0, P1}, {P0, P1, P2}, {P0, P1, P2, P3}} } :
        /\ P1 \in DOMAIN k => k[P0] = "dict"
        /\ P2 \in DOMAIN k => k[P1] = "dict"
        /\ P3 \in DOMAIN k => k[P2] = "dict" }

WellFormedKinds(k) == P3 \in DOMAIN k /\ k[P3] = "list"

WellFormed(d) == WellFormedKinds(d.kinds)

Templates ==
    { Doc(k, <<>>) : k \in KindShapes } \cup
    { Doc(k, <<Existing>>) : k \in { s \in KindShapes : WellFormedKinds(s) } }

\* node[key] for a string key: the exception Python raises, "none" when it succeeds
GetItem(d, path, key) ==
    IF d.kinds[path] = "dict"
    THEN IF Append(path, key) \in DOMAIN d.kinds THEN "none" ELSE "KeyError"
    ELSE "TypeError"

\* node.append: only a list has the attribute
GetAppend(d, path) ==
    IF d.kinds[path] = "list" THEN "none" ELSE "AttributeError"

\* mutant: the lookup stops at job['setup']['package']
AppendErrorShort(d) ==
    IF GetItem(d, P0, "setup") # "none" THEN GetItem(d, P0, "setup")
    ELSE IF GetItem(d, P1, "package") # "none" THEN GetItem(d, P1, "package")
    ELSE "none"

\* job['setup']['package']['fileInformations'].append evaluated left to right
AppendError(d) ==
    IF GetItem(d, P0, "setup") # "none" THEN GetItem(d, P0, "setup")
    ELSE IF GetItem(d, P1, "package") # "none" THEN GetItem(d, P1, "package")
    ELSE IF GetItem(d, P2, "fileInformations") # "none"
         THEN GetItem(d, P2, "fileInformations")
    ELSE GetAppend(d, P3)

\* the exceptions the except clause of update_file_info_in_job names
Caught == {"KeyError", "TypeError", "AttributeError"}

-----------------------------------------------------------------------------
(* The environment: the command line, the file system and the service *)

FilePaths == { <<"a">>, <<"d", "/", "b">>, <<".", "/", "c">> }

FileLists == UNION { [1..n -> FilePaths] : n \in 0..MaxFiles }

\* None (option not given), the empty string, a path
OutputPaths == {"None", "", "out.json"}

\* what bool(output_job_path) is
Truthy(p) == p \notin {"None", ""}

\* st_size values around the limit
Sizes == {0, MAX_FILE_SIZE, MAX_FILE_SIZE + 1}

Texts(alphabet, n) == UNION { [1..m -> alphabet] : m \in 0..n }

\* bodies of successful uploads: a quoted URL, an empty quoted string, a bare URL
OkTexts == { <<Quote, "u", Quote>>, <<Quote, Quote>>, <<"u">> }

\* a response has a status (ok = 2xx) and a body
Responses ==
    { [ok |-> TRUE, text |-> t] : t \in OkTexts } \cup { [ok |-> FALSE, text |-> <<"e">>] }

\* every body over a quote and a letter, up to MaxTextLen characters
AnyResponses == { [ok |-> TRUE, text |-> t] : t \in Texts({Quote, "u"}, MaxTextLen) }

Event(op, k, ph) == [op |-> op, k |-> k, ph |-> ph]

-----------------------------------------------------------------------------
(* Process termination *)

\* mutant: exit() without a status leaves the process with status 0
Exit0 ==
    /\ pc' = "exited"
    /\ exc' = "SystemExit"
    /\ at' = pc
    /\ exitCode' = 0

\* exit(1): SystemExit leaves the process with status 1
Exit1 ==
    /\ pc' = "exited"
    /\ exc' = "SystemExit"
    /\ at' = pc
    /\ exitCode' = 1

\* an exception nobody catches: traceback, status 1
Crash(e) ==
    /\ pc' = "crashed"
    /\ exc' = e
    /\ at' = pc
    /\ exitCode' = 1

Running == UNCHANGED <<exc, at, exitCode>>

-----------------------------------------------------------------------------
(* submit, lines 243-244: the job document is loaded *)

LoadJob ==
    /\ pc = "start"
    /\ \/ /\ job' = jobFile
          /\ pc' = "loop"
          /\ Running
       \/ /\ \E e \in {"FileNotFoundError", "JSONDecodeError"} : Crash(e)
          /\ UNCHANGED job
    /\ UNCHANGED <<jobFile, files, output_job_path, file_info, i, j, size,
                   responses, log, outFile>>

\* mutant: the limit itself is refused
OverLimitInclusive(sz) == sz >= MAX_FILE_SIZE

\* line 118
OverLimit(sz) == sz > MAX_FILE_SIZE

(* add_file_info_to_job line 164 takes the next file;                      *)
(* upload_file_and_generate_file_info lines 115-120 stat it and check it   *)
StatAndCheck ==
    /\ pc = "loop"
    /\ i < Len(files)
    /\ i' = i + 1
    /\ \/ /\ \E sz \in Sizes :
                /\ size' = sz
                /\ IF OverLimit(sz)
                   THEN Exit1
                   ELSE pc' = "upload" /\ Running
       \/ /\ Crash("FileNotFoundError")
          /\ UNCHANGED size
    /\ UNCHANGED <<jobFile, files, output_job_path, job, file_info, j,
                   responses, log, outFile>>

(* Client.upload_file lines 83-85: the file is opened and the PUT is sent *)
UploadCall ==
    /\ pc = "upload"
    /\ \/ /\ log' = Append(log, Event("PUT", i, "call"))
          /\ pc' = "put_sent"
          /\ Running
       \/ /\ Crash("PermissionError")
          /\ UNCHANGED log
    /\ UNCHANGED <<jobFile, files, output_job_path, job, file_info, i, j, size,
                   responses, outFile>>

\* mutant: each file information is appended to the job as soon as it is built
UploadReturnInterleaved(R) ==
    /\ pc = "put_sent"
    /\ \E r \in R :
          /\ responses' = Append(responses, r)
          /\ file_info' = Append(file_info, GenerateFileInfo(files[i], r.text))
          /\ job' = [job EXCEPT !.items = Append(@, GenerateFileInfo(files[i], r.text))]
    /\ log' = Append(log, Event("PUT", i, "return"))
    /\ pc' = "loop"
    /\ Running
    /\ UNCHANGED <<jobFile, files, output_job_path, i, j, size, outFile>>

(* session.put returns whatever the status; lines 126-132 build the file   *)
(* information from the body and line 167 appends it                       *)
UploadReturnFrom(R) ==
    /\ pc = "put_sent"
    /\ \E r \in R :
          /\ responses' = Append(responses, r)
          /\ file_info' = Append(file_info, GenerateFileInfo(files[i], r.text))
    /\ log' = Append(log, Event("PUT", i, "return"))
    /\ pc' = "loop"
    /\ Running
    /\ UNCHANGED <<jobFile, files, output_job_path, job, i, j, size, outFile>>

UploadReturn == UploadReturnFrom(Responses)

UploadReturnAny == UploadReturnFrom(AnyResponses)

\* mutant: a failed upload is tried again
UploadRetry ==
    /\ pc = "put_sent"
    /\ log' = Append(log, Event("PUT", i, "raise"))
    /\ pc' = "upload"
    /\ Running
    /\ UNCHANGED <<jobFile, files, output_job_path, job, file_info, i, j, size,
                   responses, outFile>>

(* session.put raises: the network failed *)
UploadRaise ==
    /\ pc = "put_sent"
    /\ log' = Append(log, Event("PUT", i, "raise"))
    /\ Crash("ConnectionError")
    /\ UNCHANGED <<jobFile, files, output_job_path, job, file_info, i, j, size,
                   responses, outFile>>

\* mutant: the merge is entered even with nothing to merge
AlwaysMerge(infos) == TRUE

\* line 169: `if file_info:`
NeedsMerge(infos) == infos # <<>>

(* lines 169-172: the upload loop is over *)
LoopEnd ==
    /\ pc = "loop"
    /\ i = Len(files)
    /\ pc' = IF NeedsMerge(file_info) THEN "merge" ELSE "assembled"
    /\ Running
    /\ UNCHANGED <<jobFile, files, output_job_path, job, file_info, i, j, size,
                   responses, log, outFile>>

\* mutant: the new entry goes to the front of the list
Prepended(d, info) == [d EXCEPT !.items = <<info>> \o @]

\* list.append on job['setup']['package']['fileInformations']
Appended(d, info) == [d EXCEPT !.items = Append(@, info)]

(* update_file_info_in_job lines 139-146: one pass of the for loop, or its *)
(* end when every file information has been taken                          *)
MergeStep ==
    /\ pc = "merge"
    /\ IF j < Len(file_info)
       THEN /\ j' = j + 1
            /\ IF AppendError(job) \in Caught
               THEN /\ Exit1
                    /\ UNCHANGED job
               ELSE /\ job' = Appended(job, file_info[j + 1])
                    /\ pc' = "merge"
                    /\ Running
       ELSE /\ pc' = "assembled"
            /\ Running
            /\ UNCHANGED <<job, j>>
    /\ UNCHANGED <<jobFile, files, output_job_path, file_info, i, size,
                   responses, log, outFile>>

\* line 249: open(output_job_path) has no mode argument
OpenMode == "r"

Writable(mode) == mode \in {"w", "a", "x", "r+"}

(* submit lines 248-250 *)
DumpJob ==
    /\ pc = "assembled"
    /\ IF Truthy(output_job_path)
       THEN \/ /\ Crash("FileNotFoundError")
               /\ UNCHANGED outFile
            \/ IF Writable(OpenMode)
               THEN /\ outFile' = job
                    /\ pc' = "dumped"
                    /\ Running
               ELSE /\ Crash("UnsupportedOperation")
                    /\ UNCHANGED outFile
       ELSE /\ pc' = "dumped"
            /\ Running
            /\ UNCHANGED outFile
    /\ UNCHANGED <<jobFile, files, output_job_path, job, file_info, i, j, size,
                   responses, log>>

(* Client.submit_job lines 91-92 *)
SubmitCall ==
    /\ pc = "dumped"
    /\ log' = Append(log, Event("POST", 0, "call"))
    /\ pc' = "post_sent"
    /\ Running
    /\ UNCHANGED <<jobFile, files, output_job_path, job, file_info, i, j, size,
                   responses, outFile>>

(* session.post returns, print_response prints it, submit ends *)
SubmitReturn ==
    /\ pc = "post_sent"
    /\ log' = Append(log, Event("POST", 0, "return"))
    /\ pc' = "done"
    /\ exitCode' = 0
    /\ UNCHANGED <<jobFile, files, output_job_path, job, file_info, i, j, size,
                   responses, outFile, exc, at>>

SubmitRaise ==
    /\ pc = "post_sent"
    /\ log' = Append(log, Event("POST", 0, "raise"))
    /\ Crash("ConnectionError")
    /\ UNCHANGED <<jobFile, files, output_job_path, job, file_info, i, j, size,
                   responses, outFile>>

-----------------------------------------------------------------------------

Init ==
    /\ pc = "start"
    /\ jobFile \in Templates
    /\ files \in FileLists
    /\ output_job_path \in OutputPaths
    /\ job = Unbound
    /\ file_info = <<>>
    /\ i = 0
    /\ j = 0
    /\ size = 0
    /\ responses = <<>>
    /\ log = <<>>
    /\ outFile = Unbound
    /\ exc = "none"
    /\ at = "none"
    /\ exitCode = -1

Next ==
    \/ LoadJob
    \/ StatAndCheck
    \/ UploadCall
    \/ UploadReturn
    \/ UploadRaise
    \/ LoopEnd
    \/ MergeStep
    \/ DumpJob
    \/ SubmitCall
    \/ SubmitReturn
    \/ SubmitRaise

Spec == Init /\ [][Next]_vars

(* One file, a well-formed template, any response body: the specification  *)
(* under which the unquoting of the upload response is examined            *)
InitUnquote ==
    /\ Init
    /\ WellFormed(jobFile)
    /\ Len(files) = 1
    /\ output_job_path = "None"

NextUnquote ==
    \/ LoadJob
    \/ StatAndCheck
    \/ UploadCall
    \/ UploadReturnAny
    \/ UploadRaise
    \/ LoopEnd
    \/ MergeStep
    \/ DumpJob
    \/ SubmitCall
    \/ SubmitReturn
    \/ SubmitRaise

SpecUnquote == InitUnquote /\ [][NextUnquote]_vars

-----------------------------------------------------------------------------
(* Vocabulary of the properties *)

PutCalls == SelectSeq(log, LAMBDA e : e.op = "PUT" /\ e.ph = "call")

PutEnds == SelectSeq(log, LAMBDA e : e.op = "PUT" /\ e.ph \in {"return", "raise"})

\* upload requests sent and not yet answered
InFlight == Len(PutCalls) - Len(PutEnds)

Submitted == \E n \in 1..Len(log) : log[n].op = "POST" /\ log[n].ph = "call"

ExitedAt(where) == pc = "exited" /\ at = where

CrashedAt(where) == pc = "crashed" /\ at = where

\* add_file_info_to_job has returned
AssemblyReturned ==
    \/ pc \in {"assembled", "dumped", "post_sent", "done"}
    \/ CrashedAt("assembled") \/ CrashedAt("post_sent")

\* the run is inside the upload loop, or ended there
InUploadPhase ==
    \/ pc \in {"loop", "upload", "put_sent"}
    \/ \E w \in {"loop", "upload", "put_sent"} : ExitedAt(w) \/ CrashedAt(w)

Quotes(n) == [k \in 1..n |-> Quote]

\* url is text without all of its leading and trailing double quotes
IsUnquoteOf(url, text) ==
    /\ url = <<>> \/ (url[1] # Quote /\ url[Len(url)] # Quote)
    /\ \E a, b \in 0..Len(text) : text = Quotes(a) \o url \o Quotes(b)

\* text without one leading and without one trailing double quote
StripOnePair(text) ==
    LET t == IF text # <<>> /\ Head(text) = Quote THEN Tail(text) ELSE text
    IN  IF t # <<>> /\ t[Len(t)] = Quote THEN SubSeq(t, 1, Len(t) - 1) ELSE t

\* the base names of the paths the command line may carry
BaseName(p) ==
    CASE p = <<"a">> -> <<"a">>
      [] p = <<"d", "/", "b">> -> <<"b">>
      [] p = <<".", "/", "c">> -> <<"c">>

-----------------------------------------------------------------------------
(* C1: for a well-formed job document and a non-empty list of files that   *)
(* all upload successfully, add_file_info_to_job returns the document with *)
(* fileInformations = the original entries followed by one entry per file, *)
(* in input order, the k-th being {action: DownloadOnly, name: base name   *)
(* of the k-th file, url: unquoted k-th response}.                         *)
C1_AppendedInInputOrder ==
    ( /\ AssemblyReturned
      /\ WellFormed(jobFile)
      /\ files # <<>>
      /\ \A k \in 1..Len(responses) : responses[k].ok )
    => /\ job.kinds = jobFile.kinds
       /\ Len(job.items) = Len(jobFile.items) + Len(files)
       /\ SubSeq(job.items, 1, Len(jobFile.items)) = jobFile.items
       /\ \A k \in 1..Len(files) :
             LET e == job.items[Len(jobFile.items) + k]
             IN  /\ DOMAIN e = {"action", "name", "url"}
                 /\ e.action = "DownloadOnly"
                 /\ e.name = BaseName(files[k])
                 /\ IsUnquoteOf(e.url, responses[k].text)

C1_Witness ==
    /\ pc = "assembled"
    /\ WellFormed(jobFile)
    /\ jobFile.items # <<>>
    /\ Len(files) = 2
    /\ files[1] = <<"d", "/", "b">>
    /\ files[2] = <<"a">>
    /\ responses[1].text = <<Quote, "u", Quote>>
    /\ responses[2].text = <<Quote, Quote>>
    /\ Len(job.items) = 3

(* C2: with a job document lacking setup.package.fileInformations (absent, *)
(* an ancestor missing, or not a list) and a non-empty file list, the      *)
(* assembly never returns: it ends in exit(1) at the first append, the     *)
(* document is never changed, and no upload call follows the merge attempt *)
(* (the log then holds exactly one call and one return per file).          *)
C2_MalformedTemplateFatal ==
    ( /\ ~WellFormed(jobFile)
      /\ files # <<>>
      /\ pc # "start" /\ ~CrashedAt("start") )
    => /\ job = jobFile
       /\ ~AssemblyReturned
       /\ ~Submitted
       /\ pc = "merge" => j = 0
       /\ (pc = "exited" /\ at = "merge") =>
             /\ exitCode = 1
             /\ j = 1
             /\ log = [n \in 1..(2 * Len(files)) |->
                         Event("PUT", (n + 1) \div 2, IF n % 2 = 1 THEN "call" ELSE "return")]
       /\ pc \in {"done", "exited", "crashed"} => exitCode = 1

C2_Witness ==
    /\ ExitedAt("merge")
    /\ Len(files) = 2
    /\ P3 \in DOMAIN jobFile.kinds
    /\ jobFile.kinds[P3] = "dict"
    /\ job = jobFile

(* C3 as stated: the stored url is the response text with exactly one      *)
(* leading and one trailing double quote removed.                          *)
C3_ExactlyOnePairRemoved ==
    \A k \in 1..Len(file_info) : file_info[k].url = StripOnePair(responses[k].text)

(* C3 as amended: the stored url is the response text with all of its      *)
(* leading and all of its trailing double quotes removed.                  *)
C3_AllOuterQuotesRemoved ==
    \A k \in 1..Len(file_info) : IsUnquoteOf(file_info[k].url, responses[k].text)

C3_Witness ==
    /\ Len(file_info) = 1
    /\ responses[1].text = <<Quote, Quote, "u", Quote>>
    /\ file_info[1].url = <<"u">>

(* C4: the run exits with status 1 at the size check, before the upload    *)
(* call for that file, if and only if the file's size exceeds 4,194,304;   *)
(* a file of exactly 4,194,304 bytes goes on to the upload.                *)
C4_AbortIffOverLimit ==
    /\ ExitedAt("loop") <=> size > 4194304
    /\ ExitedAt("loop") =>
          /\ exitCode = 1
          /\ \A n \in 1..Len(log) : log[n].k # i
    /\ pc \in {"upload", "put_sent"} => size <= 4194304

C4_Witness ==
    /\ ExitedAt("loop")
    /\ size = 4194305
    /\ i = 2
    /\ Len(PutCalls) = 1

(* C5 as stated: an upload that ends in a transport-level error (the       *)
(* request raises, or the response has a non-success status) yields no     *)
(* file information, is not retried, and the job is never submitted.       *)
C5_TransportErrorFatal ==
    /\ \A k \in 1..Len(responses) :
          ~responses[k].ok => (Len(file_info) < k /\ ~Submitted)
    /\ \A n \in 1..Len(log) :
          (log[n].op = "PUT" /\ log[n].ph = "raise") =>
             /\ n = Len(log)
             /\ Len(file_info) < log[n].k

(* C6 as stated: with an output path configured, once the assembly has     *)
(* returned and the run has moved on, the document is on disk at the       *)
(* output path, and the submission request follows.                        *)
C6_PersistedBeforeSubmit ==
    ( /\ Truthy(output_job_path)
      /\ AssemblyReturned
      /\ pc # "assembled" )
    => /\ outFile = job
       /\ pc # "dumped" => Submitted

(* C7: with an empty file list add_file_info_to_job uploads nothing, never *)
(* enters the merge, raises nothing and returns the loaded document        *)
(* unchanged, whatever its shape.                                          *)
C7_EmptyFileListIdentity ==
    ( /\ files = <<>>
      /\ pc # "start" /\ ~CrashedAt("start") )
    => /\ job = jobFile
       /\ PutCalls = <<>>
       /\ responses = <<>>
       /\ pc # "merge" /\ j = 0
       /\ pc # "exited"
       /\ pc = "loop" \/ AssemblyReturned

C7_Witness ==
    /\ files = <<>>
    /\ pc = "assembled"
    /\ ~WellFormed(jobFile)
    /\ job = jobFile

(* C8: a fatal condition during assembly (a size over the limit, or an     *)
(* append attempted on a document without the fileInformations list) ends  *)
(* the process with status 1, and the job-submission request is never      *)
(* sent, however many files were uploaded before.                          *)
C8_FatalNeverSubmits ==
    /\ (size > 4194304 \/ (j > 0 /\ ~WellFormed(job))) => pc = "exited"
    /\ pc = "exited" =>
          /\ exitCode = 1
          /\ exc = "SystemExit"
          /\ ~Submitted
          /\ ~AssemblyReturned

C8_Witness ==
    /\ ExitedAt("merge")
    /\ Len(PutCalls) = 2
    /\ ~Submitted
    /\ exitCode = 1

(* C9: the job document stays equal to the loaded template until the size  *)
(* check and the upload of every input file are over; a run that ends      *)
(* inside the upload phase leaves it equal to the template.                *)
C9_NoAppendBeforeAllUploads ==
    /\ InUploadPhase => job = jobFile
    /\ job # jobFile /\ pc # "start" /\ ~CrashedAt("start") =>
          /\ i = Len(files)
          /\ Len(responses) = Len(files)
          /\ Len(file_info) = Len(files)

C9_Witness ==
    /\ ExitedAt("loop")
    /\ i = 2
    /\ Len(file_info) = 1
    /\ WellFormed(jobFile)
    /\ job = jobFile

(* C10: upload calls are issued in input order, one per file at most, each *)
(* only after the previous one returned; at most one is in flight; a run   *)
(* that reaches submission has made exactly one per file; a run that       *)
(* aborts at the k-th file has made none for a later file.                 *)
C10_SequentialUploads ==
    /\ \A n \in 1..Len(PutCalls) : PutCalls[n].k = n
    /\ Len(PutCalls) <= Len(files)
    /\ \A n \in 1..Len(log) :
          (log[n].op = "PUT" /\ log[n].ph = "call") =>
             /\ n > 1 => log[n - 1] = Event("PUT", log[n].k - 1, "return")
             /\ n < Len(log) => (log[n + 1].op = "PUT" /\ log[n + 1].k = log[n].k
                                  /\ log[n + 1].ph \in {"return", "raise"})
             /\ n = Len(log) => pc = "put_sent"
    /\ InFlight \in {0, 1}
    /\ InFlight = 1 <=> pc = "put_sent"
    /\ Submitted => Len(PutCalls) = Len(files)
    /\ pc \in {"exited", "crashed"} /\ at \in {"loop", "upload", "put_sent"} =>
          /\ Len(PutCalls) <= i
          /\ \A n \in 1..Len(log) : log[n].k <= i

C10_Witness ==
    /\ pc = "done"
    /\ Len(files) = 2
    /\ Len(PutCalls) = 2

====
